---- MODULE Spec2Model ----
(***************************************************************************)
(* Real-estate ownership and taxes (buildings.py) and mail franking and    *)
(* mailboxes (mail.py).                                                    *)
(*                                                                         *)
(* Amounts are kept exact by scaling: taxes are counted in tenths of a     *)
(* franc (rates 5.6 and 1.5 become 56 and 15) and franking amounts in      *)
(* thousandths of a franc (so weight_kg, weight_g / 1000.0, is weight_g).  *)
(***************************************************************************)
EXTENDS Integers, Sequences, FiniteSets, TLC

VARIABLES
    owner,            \* Building.__owner, indexed by building (1..Len(buildings))
    owned_buildings,  \* Person.owned_buildings, one list of buildings per person
    buildings,        \* the fields of each constructed building
    lists,            \* the list objects of the heap; lists[1] is the caller's list
    constructed_with, \* history: the contents of the list given to each constructor
    last,             \* history: the last Building operation and its arguments
    mail,             \* the Mail object under consideration
    mails,            \* Mailbox.__mails
    added,            \* history: the arguments of the add_mail calls, in call order
    result            \* the value returned by the last query

vars == <<owner, owned_buildings, buildings, lists, constructed_with, last,
          mail, mails, added, result>>

building_vars == <<owner, owned_buildings, buildings, lists, constructed_with, last>>
mail_vars == <<mail, mails, added, result>>

----------------------------------------------------------------------------
(* Bounds and input domains *)

MaxBuildings == 3
MaxSnapshotBuildings == 2
MaxAppartments == 2
MaxMails == 3

Persons == {"Alice", "Bob", "Carol"}
HouseLivingAreas == {50}
HouseGardenAreas == {10}
AppartmentAreas == {30, 60}

----------------------------------------------------------------------------
(* buildings.py *)

LIVING_AREA_TAX_RATE == 56
GARDEN_AREA_TAX_RATE == 15

RECURSIVE sum(_)
sum(s) == IF s = <<>> THEN 0 ELSE Head(s) + sum(Tail(s))

list_contains(s, x) == \E i \in 1..Len(s) : s[i] = x

list_count(s, x) == Cardinality({i \in 1..Len(s) : s[i] = x})

\* list.remove(x): removes the first occurrence of x (x must be present)
list_remove(s, x) ==
    LET i == CHOOSE k \in 1..Len(s) : s[k] = x /\ \A j \in 1..(k-1) : s[j] # x
    IN  SubSeq(s, 1, i-1) \o SubSeq(s, i+1, Len(s))

\* list.copy(): a new list object with the same elements; the heap and the new reference
list_copy_alias(heap, ref) == [heap |-> heap, ref |-> ref]

list_copy(heap, ref) == [heap |-> Append(heap, heap[ref]), ref |-> Len(heap) + 1]

\* Building.__init__: the owned_buildings lists after initial_owner.owned_buildings.append(self)
Building_init_forgets_append(owned, initial_owner, self) == owned

Building_init(owned, initial_owner, self) ==
    [owned EXCEPT ![initial_owner] = Append(@, self)]

\* Building.owner setter: the owned_buildings lists after
\*   self.__owner.owned_buildings.remove(self); new_owner.owned_buildings.append(self)
owner_setter_keeps_old(owned, old_owner, new_owner, self) ==
    [owned EXCEPT ![new_owner] = Append(@, self)]

owner_setter_prepends(owned, old_owner, new_owner, self) ==
    LET removed == [owned EXCEPT ![old_owner] = list_remove(@, self)]
    IN  [removed EXCEPT ![new_owner] = <<self>> \o @]

owner_setter(owned, old_owner, new_owner, self) ==
    LET removed == [owned EXCEPT ![old_owner] = list_remove(@, self)]
    IN  [removed EXCEPT ![new_owner] = Append(@, self)]

House_living_area(b) == buildings[b].living_area

House_garden_area(b) == buildings[b].garden_area

AppartmentBuilding_living_area_first_only(b) ==
    LET apps == lists[buildings[b].appartments]
    IN  IF apps = <<>> THEN 0 ELSE Head(apps)

AppartmentBuilding_living_area(b) == sum(lists[buildings[b].appartments])

AppartmentBuilding_garden_area(b) == 0

living_area(b) ==
    IF buildings[b].kind = "House" THEN House_living_area(b)
    ELSE AppartmentBuilding_living_area(b)

garden_area(b) ==
    IF buildings[b].kind = "House" THEN House_garden_area(b)
    ELSE AppartmentBuilding_garden_area(b)

compute_taxes_for_building(b) ==
    LET living_area_taxes == LIVING_AREA_TAX_RATE * living_area(b)
        garden_taxes == GARDEN_AREA_TAX_RATE * garden_area(b)
    IN  living_area_taxes + garden_taxes

compute_taxes(person) ==
    sum([i \in 1..Len(owned_buildings[person]) |->
            compute_taxes_for_building(owned_buildings[person][i])])

\* House(initial_owner, living_area, garden_area)
House_init(initial_owner, la, ga) ==
    LET self == Len(buildings) + 1 IN
    /\ owner' = Append(owner, initial_owner)
    /\ owned_buildings' = Building_init(owned_buildings, initial_owner, self)
    /\ buildings' = Append(buildings,
            [kind |-> "House", living_area |-> la, garden_area |-> ga])
    /\ constructed_with' = Append(constructed_with, <<>>)
    /\ last' = [op |-> "init", b |-> self, p |-> initial_owner, q |-> initial_owner]
    /\ UNCHANGED lists

\* AppartmentBuilding(initial_owner, appartments), appartments a reference to a list
AppartmentBuilding_init(initial_owner, appartments) ==
    LET self == Len(buildings) + 1
        copy == list_copy(lists, appartments)
    IN
    /\ owner' = Append(owner, initial_owner)
    /\ owned_buildings' = Building_init(owned_buildings, initial_owner, self)
    /\ lists' = copy.heap
    /\ buildings' = Append(buildings,
            [kind |-> "AppartmentBuilding", appartments |-> copy.ref])
    /\ constructed_with' = Append(constructed_with, lists[appartments])
    /\ last' = [op |-> "init", b |-> self, p |-> initial_owner, q |-> initial_owner]

\* b.owner = new_owner; list.remove raises ValueError, before any change, when
\* the building is not in its owner's list
set_owner(b, new_owner) ==
    LET old_owner == owner[b] IN
    IF list_contains(owned_buildings[old_owner], b)
    THEN /\ owned_buildings' = owner_setter(owned_buildings, old_owner, new_owner, b)
         /\ owner' = [owner EXCEPT ![b] = new_owner]
         /\ last' = [op |-> "set_owner", b |-> b, p |-> old_owner, q |-> new_owner]
         /\ UNCHANGED <<buildings, lists, constructed_with>>
    ELSE /\ last' = [op |-> "ValueError", b |-> b, p |-> old_owner, q |-> new_owner]
         /\ UNCHANGED <<owner, owned_buildings, buildings, lists, constructed_with>>

\* The caller changes the list it passed (or will pass) to AppartmentBuilding
caller_append(a) ==
    /\ lists' = [lists EXCEPT ![1] = Append(@, a)]
    /\ UNCHANGED <<owner, owned_buildings, buildings, constructed_with, last>>

caller_remove(i) ==
    /\ lists' = [lists EXCEPT ![1] = SubSeq(@, 1, i-1) \o SubSeq(@, i+1, Len(@))]
    /\ UNCHANGED <<owner, owned_buildings, buildings, constructed_with, last>>

caller_reverse ==
    /\ lists[1] # [i \in 1..Len(lists[1]) |-> lists[1][Len(lists[1]) + 1 - i]]
    /\ lists' = [lists EXCEPT ![1] = [i \in 1..Len(@) |-> @[Len(@) + 1 - i]]]
    /\ UNCHANGED <<owner, owned_buildings, buildings, constructed_with, last>>

InitBuildings ==
    /\ owner = <<>>
    /\ owned_buildings = [p \in Persons |-> <<>>]
    /\ buildings = <<>>
    /\ lists = << <<30, 60>> >>
    /\ constructed_with = <<>>
    /\ last = [op |-> "none", b |-> 0, p |-> "Alice", q |-> "Alice"]

\* No mail under consideration, and no query made yet
NoMail == [kind |-> "none"]
NoResult == [op |-> "none", value |-> 0]

\* Mailbox.__init__
InitMail ==
    /\ mail = NoMail
    /\ mails = <<>>
    /\ added = <<>>
    /\ result = NoResult

Init == InitBuildings /\ InitMail

NewHouse ==
    /\ Len(buildings) < MaxBuildings
    /\ \E p \in Persons, la \in HouseLivingAreas, ga \in HouseGardenAreas :
          House_init(p, la, ga)
    /\ UNCHANGED mail_vars

NewAppartmentBuilding ==
    /\ Len(buildings) < MaxBuildings
    /\ \E p \in Persons : AppartmentBuilding_init(p, 1)
    /\ UNCHANGED mail_vars

Transfer ==
    /\ \E b \in 1..Len(buildings), q \in Persons : set_owner(b, q)
    /\ UNCHANGED mail_vars

Next == NewHouse \/ NewAppartmentBuilding \/ Transfer

Spec == Init /\ [][Next]_vars

\* The snapshot specification: one owner, and a caller that keeps changing its list
SnapshotNewAppartmentBuilding ==
    /\ Len(buildings) < MaxSnapshotBuildings
    /\ AppartmentBuilding_init("Alice", 1)
    /\ UNCHANGED mail_vars

CallerAppend ==
    /\ Len(lists[1]) < MaxAppartments
    /\ \E a \in AppartmentAreas : caller_append(a)
    /\ UNCHANGED mail_vars

CallerRemove ==
    /\ \E i \in 1..Len(lists[1]) : caller_remove(i)
    /\ UNCHANGED mail_vars

CallerReverse == caller_reverse /\ UNCHANGED mail_vars

NextSnapshot ==
    SnapshotNewAppartmentBuilding \/ CallerAppend \/ CallerRemove \/ CallerReverse

SpecSnapshot == Init /\ [][NextSnapshot]_vars

----------------------------------------------------------------------------
(* mail.py *)

MAX_PARCEL_VOLUME == 50

DeliveryModes == {"NORMAL", "EXPRESS"}
Formats == {"A3", "A4", "A5"}

\* DeliveryMode.__str__
DeliveryMode_str(mode) ==
    CASE mode = "NORMAL" -> "normal"
      [] mode = "EXPRESS" -> "express"

\* Format.__str__: the name of the enumeration member
Format_str(format) == format

\* The constructors: a mail is the record of its fields
Letter(weight_g, delivery_mode, delivery_address, format) ==
    [kind |-> "Letter", weight_g |-> weight_g, delivery_mode |-> delivery_mode,
     delivery_address |-> delivery_address, format |-> format]

Parcel(weight_g, delivery_mode, delivery_address, volume) ==
    [kind |-> "Parcel", weight_g |-> weight_g, delivery_mode |-> delivery_mode,
     delivery_address |-> delivery_address, volume |-> volume]

Advertisement(weight_g, delivery_mode, delivery_address) ==
    [kind |-> "Advertisement", weight_g |-> weight_g, delivery_mode |-> delivery_mode,
     delivery_address |-> delivery_address]

\* Mail.weight_kg: weight_g / 1000.0, here in thousandths of a kilogram
weight_kg(m) == m.weight_g

\* Letter.frank_normal, in thousandths of a franc
Letter_frank_normal(m) ==
    LET base == CASE m.format = "A5" -> 1500
                  [] m.format = "A4" -> 2500
                  [] m.format = "A3" -> 3500
    IN  base + weight_kg(m)

\* Parcel.frank_normal: 0.25 * volume + weight_kg
Parcel_frank_normal(m) == 250 * m.volume + weight_kg(m)

\* Advertisement.frank_normal: 5.0 * weight_kg
Advertisement_frank_normal(m) == 5 * weight_kg(m)

frank_normal(m) ==
    CASE m.kind = "Letter" -> Letter_frank_normal(m)
      [] m.kind = "Parcel" -> Parcel_frank_normal(m)
      [] m.kind = "Advertisement" -> Advertisement_frank_normal(m)

Mail_frank_never_doubles(m) == frank_normal(m)

Mail_frank(m) ==
    LET base == frank_normal(m) IN
    CASE m.delivery_mode = "NORMAL" -> base
      [] m.delivery_mode = "EXPRESS" -> 2 * base

Mail_is_valid(m) == m.delivery_address # ""

Parcel_is_valid_strict(m) == Mail_is_valid(m) /\ m.volume < MAX_PARCEL_VOLUME

Parcel_is_valid(m) == Mail_is_valid(m) /\ m.volume <= MAX_PARCEL_VOLUME

is_valid(m) == IF m.kind = "Parcel" THEN Parcel_is_valid(m) ELSE Mail_is_valid(m)

general_info_str(m) ==
    ToString(m.weight_g) \o " g, " \o DeliveryMode_str(m.delivery_mode)
        \o ", pour '" \o m.delivery_address \o "'"

invalid_str_suffix(m) == IF is_valid(m) THEN "" ELSE " (invalide)"

Letter_str(m) ==
    "Lettre : " \o general_info_str(m) \o ", " \o Format_str(m.format)
        \o invalid_str_suffix(m)

Parcel_str(m) ==
    "Colis : " \o general_info_str(m) \o ", " \o ToString(m.volume) \o " l"
        \o invalid_str_suffix(m)

Advertisement_str(m) ==
    "Publicité : " \o general_info_str(m) \o invalid_str_suffix(m)

str(m) ==
    CASE m.kind = "Letter" -> Letter_str(m)
      [] m.kind = "Parcel" -> Parcel_str(m)
      [] m.kind = "Advertisement" -> Advertisement_str(m)

\* Mailbox.frank: sum([mail.frank() for mail in self.__mails if mail.is_valid()])
Mailbox_frank_counts_all ==
    sum([i \in 1..Len(mails) |-> Mail_frank(mails[i])])

Mailbox_frank ==
    LET valid == SelectSeq(mails, is_valid)
    IN  sum([i \in 1..Len(valid) |-> Mail_frank(valid[i])])

\* Mailbox.invalid_mails
Mailbox_invalid_mails ==
    LET invalid(m) == ~is_valid(m) IN Len(SelectSeq(mails, invalid))

\* Mailbox.display
Mailbox_display == [i \in 1..Len(mails) |-> str(mails[i])]

\* Mailbox.add_mail: self.__mails after the call
Mailbox_add_mail_prepends(ms, m) == <<m>> \o ms

Mailbox_add_mail(ms, m) == Append(ms, m)

add_mail(m) ==
    /\ mails' = Mailbox_add_mail(mails, m)
    /\ added' = Append(added, m)
    /\ result' = NoResult
    /\ UNCHANGED mail

query(op, value) ==
    /\ result' = [op |-> op, value |-> value]
    /\ UNCHANGED <<mail, mails, added>>

\* The input domains of the mail specifications
Weights == {0, 180, 1800}
Addresses == {"", "dest"}
Volumes == {2, 50, 51, 200}

AllMails ==
    {Letter(w, d, a, f) : w \in Weights, d \in DeliveryModes, a \in Addresses, f \in Formats}
    \cup {Parcel(w, d, a, v) : w \in Weights, d \in DeliveryModes, a \in Addresses,
                               v \in Volumes}
    \cup {Advertisement(w, d, a) : w \in Weights, d \in DeliveryModes, a \in Addresses}

BoxMails ==
    { Letter(180, "NORMAL", "dest", "A5"),
      Letter(240, "EXPRESS", "", "A4"),
      Parcel(1800, "NORMAL", "dest", 2),
      Parcel(1800, "NORMAL", "", 2),
      Parcel(15000, "EXPRESS", "dest", 200),
      Advertisement(200, "NORMAL", "dest"),
      Advertisement(240, "EXPRESS", "") }

\* The mail specification: the methods of one mail
InitOneMail ==
    /\ InitBuildings
    /\ mail \in AllMails
    /\ mails = <<>>
    /\ added = <<>>
    /\ result = NoResult

NewMail ==
    /\ mail' \in AllMails
    /\ result' = NoResult
    /\ UNCHANGED <<mails, added, building_vars>>

CallFrank ==
    /\ result' = [op |-> "frank", value |-> Mail_frank(mail)]
    /\ UNCHANGED <<mail, mails, added, building_vars>>

CallFrankNormal ==
    /\ result' = [op |-> "frank_normal", value |-> frank_normal(mail)]
    /\ UNCHANGED <<mail, mails, added, building_vars>>

CallIsValid ==
    /\ result' = [op |-> "is_valid", value |-> is_valid(mail)]
    /\ UNCHANGED <<mail, mails, added, building_vars>>

CallStr ==
    /\ result' = [op |-> "str", value |-> str(mail)]
    /\ UNCHANGED <<mail, mails, added, building_vars>>

NextMail == NewMail \/ CallFrank \/ CallFrankNormal \/ CallIsValid \/ CallStr

SpecMail == InitOneMail /\ [][NextMail]_vars

\* The mailbox specification
AddMail ==
    /\ Len(mails) < MaxMails
    /\ \E m \in BoxMails : add_mail(m)
    /\ UNCHANGED building_vars

Frank == query("frank", Mailbox_frank) /\ UNCHANGED building_vars

InvalidMails == query("invalid_mails", Mailbox_invalid_mails) /\ UNCHANGED building_vars

Display == query("display", Mailbox_display) /\ UNCHANGED building_vars

NextMailbox == AddMail \/ Frank \/ InvalidMails \/ Display

SpecMailbox == Init /\ [][NextMailbox]_vars

----------------------------------------------------------------------------
(* Claims about buildings.py *)

BuildingIds == 1..Len(buildings)

RECURSIVE set_sum(_, _)
set_sum(S, f) ==
    IF S = {} THEN 0
    ELSE LET x == CHOOSE y \in S : TRUE IN f[x] + set_sum(S \ {x}, f)

without(s, b) == LET keep(x) == x # b IN SelectSeq(s, keep)

\* C1: every building is in exactly one person's owned_buildings list, exactly
\* once, and that person is the building's owner.
C1_ExactlyOneOwnerList ==
    \A b \in BuildingIds :
        /\ list_count(owned_buildings[owner[b]], b) = 1
        /\ \A p \in Persons \ {owner[b]} : list_count(owned_buildings[p], b) = 0

C1_Witness ==
    /\ last.op = "set_owner"
    /\ last.p # last.q
    /\ Len(owned_buildings[last.q]) >= 2
    /\ Len(buildings) = MaxBuildings

\* C2 as stated: after b.owner = q, b is in q's list and not in the list of the
\* previous owner p, for every q (q = p included).
C2_Original ==
    last.op = "set_owner" =>
        /\ list_contains(owned_buildings[last.q], last.b)
        /\ ~list_contains(owned_buildings[last.p], last.b)

\* C2 amended: after b.owner = q, b is in q's list; it is not in the list of the
\* previous owner p when q # p.
C2_Transfer ==
    last.op = "set_owner" =>
        /\ list_contains(owned_buildings[last.q], last.b)
        /\ last.p # last.q => ~list_contains(owned_buildings[last.p], last.b)

C2_Witness ==
    /\ last.op = "set_owner"
    /\ last.p # last.q
    /\ owned_buildings[last.p] # <<>>

\* (p and t are bound, not LET-defined: a prime reaches into a LET definition)
\* C3 as stated: b.owner = q lowers compute_taxes(p) by compute_taxes_for_building(b)
\* and raises compute_taxes(q) by the same amount, for every q, and the total
\* over all persons is unchanged.
total_taxes == set_sum(Persons, [p \in Persons |-> compute_taxes(p)])

C3_Original ==
    [][\A b \in BuildingIds, q \in Persons :
        set_owner(b, q) =>
            \A p \in {owner[b]}, t \in {compute_taxes_for_building(b)} :
                /\ compute_taxes(p)' = compute_taxes(p) - t
                /\ compute_taxes(q)' = compute_taxes(q) + t
                /\ total_taxes' = total_taxes]_vars

\* C3 amended: when q # p, b.owner = q lowers compute_taxes(p) by
\* compute_taxes_for_building(b) and raises compute_taxes(q) by the same amount;
\* when q = p, compute_taxes(p) is unchanged; in both cases the total over all
\* persons is unchanged.
C3_TaxesMove ==
    [][\A b \in BuildingIds, q \in Persons :
        set_owner(b, q) =>
            \A p \in {owner[b]}, t \in {compute_taxes_for_building(b)} :
                /\ p # q => /\ compute_taxes(p)' = compute_taxes(p) - t
                            /\ compute_taxes(q)' = compute_taxes(q) + t
                /\ p = q => compute_taxes(p)' = compute_taxes(p)
                /\ total_taxes' = total_taxes]_vars

C3_Witness ==
    /\ last.op = "set_owner"
    /\ last.p # last.q
    /\ compute_taxes(last.p) > 0
    /\ compute_taxes(last.q) > compute_taxes_for_building(last.b)

\* C4: compute_taxes(person) is the sum, over the buildings whose owner is person,
\* of 5.6 * living area + 1.5 * garden area (a house: its two areas; an appartment
\* building: the sum of its appartments' areas and no garden); 0 without buildings.
C4_expected_tax(b) ==
    IF buildings[b].kind = "House"
    THEN 56 * buildings[b].living_area + 15 * buildings[b].garden_area
    ELSE 56 * sum(constructed_with[b])

C4_TaxesOfOwner ==
    \A person \in Persons :
        /\ compute_taxes(person) =
              set_sum({b \in BuildingIds : owner[b] = person},
                      [b \in BuildingIds |-> C4_expected_tax(b)])
        /\ (\A b \in BuildingIds : owner[b] # person) => compute_taxes(person) = 0

C4_Witness ==
    /\ last.op = "set_owner"
    /\ \E person \in Persons :
          /\ \E b \in BuildingIds :
                owner[b] = person /\ buildings[b].kind = "House"
                                  /\ buildings[b].garden_area > 0
          /\ \E b \in BuildingIds :
                owner[b] = person /\ buildings[b].kind = "AppartmentBuilding"
    /\ \E person \in Persons : \A b \in BuildingIds : owner[b] # person

\* C9: an appartment building's living area stays the sum of the areas of the
\* appartments in the list at construction time, whatever the caller does to
\* that list afterwards, and its garden area stays 0.
C9_Snapshot ==
    \A b \in BuildingIds :
        buildings[b].kind = "AppartmentBuilding" =>
            /\ living_area(b) = sum(constructed_with[b])
            /\ garden_area(b) = 0

C9_Witness ==
    /\ \E b \in BuildingIds :
          /\ Len(lists[1]) > Len(constructed_with[b])
          /\ sum(lists[1]) # sum(constructed_with[b])
    /\ \E b \in BuildingIds :
          /\ Len(lists[1]) < Len(constructed_with[b])
          /\ sum(lists[1]) # sum(constructed_with[b])

\* C10: a construction or an assignment b.owner = q puts b at the end of the
\* receiving person's list, takes only b out of the previous owner's list, keeps
\* the order of all other buildings and leaves every other list as it was; an
\* assignment to the current owner moves b to the last position.
C10_PurchaseOrder ==
    [][/\ \A b \in BuildingIds, q \in Persons :
            set_owner(b, q) =>
                \A r \in Persons :
                    owned_buildings'[r] =
                        IF r = q THEN Append(without(owned_buildings[r], b), b)
                        ELSE without(owned_buildings[r], b)
       /\ Len(buildings') = Len(buildings) + 1 =>
            LET b == Len(buildings') IN
            \A r \in Persons :
                owned_buildings'[r] =
                    IF r = owner'[b] THEN Append(owned_buildings[r], b)
                    ELSE owned_buildings[r]]_vars

C10_Witness ==
    /\ last.op = "set_owner"
    /\ last.p = last.q
    /\ Len(owned_buildings[last.q]) = 3
    /\ owned_buildings[last.q][3] = last.b
    /\ last.b < owned_buildings[last.q][2]

----------------------------------------------------------------------------
(* Claims about mail.py *)

ends_with(s, suffix) ==
    /\ Len(s) >= Len(suffix)
    /\ SubSeq(s, Len(s) - Len(suffix) + 1, Len(s)) = suffix

C5_expected_normal(m) ==
    CASE m.kind = "Letter" ->
            (CASE m.format = "A5" -> 1500 [] m.format = "A4" -> 2500
               [] m.format = "A3" -> 3500) + m.weight_g
      [] m.kind = "Parcel" -> 250 * m.volume + m.weight_g
      [] m.kind = "Advertisement" -> 5 * m.weight_g

same_but_address(m1, m2) ==
    /\ DOMAIN m1 = DOMAIN m2
    /\ \A f \in DOMAIN m1 \ {"delivery_address"} : m1[f] = m2[f]

\* C5: frank() is frank_normal() for NORMAL and twice frank_normal() for EXPRESS,
\* frank_normal() being base(format) + weight_kg for a letter, 0.25 * volume +
\* weight_kg for a parcel and 5.0 * weight_kg for an advertisement; the amount is
\* the same for a valid and an invalid mail.
C5_Frank ==
    /\ frank_normal(mail) = C5_expected_normal(mail)
    /\ mail.delivery_mode = "NORMAL" => Mail_frank(mail) = C5_expected_normal(mail)
    /\ mail.delivery_mode = "EXPRESS" => Mail_frank(mail) = 2 * C5_expected_normal(mail)
    /\ result.op = "frank" => result.value = Mail_frank(mail)
    /\ result.op = "frank_normal" => result.value = C5_expected_normal(mail)
    /\ \A m \in AllMails : same_but_address(m, mail) => Mail_frank(m) = Mail_frank(mail)

C5_Witness ==
    /\ result.op = "frank"
    /\ mail.kind = "Parcel"
    /\ mail.delivery_mode = "EXPRESS"
    /\ ~is_valid(mail)
    /\ result.value = 2 * (250 * 200 + 1800)

\* C6: a valid mail has a non-empty address; a letter or an advertisement is valid
\* iff its address is non-empty; a parcel is valid iff its address is non-empty
\* and its volume is at most 50.
C6_Validity ==
    /\ is_valid(mail) => mail.delivery_address # ""
    /\ mail.kind \in {"Letter", "Advertisement"} =>
          (is_valid(mail) <=> mail.delivery_address # "")
    /\ mail.kind = "Parcel" =>
          (is_valid(mail) <=> (mail.delivery_address # "" /\ mail.volume <= 50))
    /\ result.op = "is_valid" => result.value = is_valid(mail)

C6_Witness ==
    /\ result.op = "is_valid"
    /\ mail.kind = "Parcel"
    /\ mail.volume = 50
    /\ mail.delivery_address # ""
    /\ result.value = TRUE

ValidAdded == {i \in 1..Len(added) : is_valid(added[i])}

\* C7: the mailbox's frank() is the sum of frank() over the added mails that are
\* valid, invalid_mails() is the number of the other added mails, and the two
\* groups together are all the added mails, each counted as often as it was added.
C7_MailboxTotals ==
    /\ Mailbox_frank =
          set_sum(ValidAdded, [i \in 1..Len(added) |-> Mail_frank(added[i])])
    /\ Mailbox_invalid_mails = Len(added) - Cardinality(ValidAdded)
    /\ ValidAdded = {} => Mailbox_frank = 0
    /\ result.op = "frank" => result.value = Mailbox_frank
    /\ result.op = "invalid_mails" =>
          result.value + Cardinality(ValidAdded) = Len(added)

C7_Witness ==
    /\ result.op = "frank"
    /\ Len(added) = 3
    /\ added[1] = added[3]
    /\ is_valid(added[1])
    /\ ~is_valid(added[2])
    /\ result.value > 0

\* C8: the mailbox holds the added mails in the order of the add_mail calls, none
\* removed; display() has one line per added mail, line i the string of the i-th
\* added mail, ending in " (invalide)" exactly when that mail is invalid.
C8_AppendOnly ==
    /\ mails = added
    /\ Len(Mailbox_display) = Len(added)
    /\ \A i \in 1..Len(added) :
          /\ Mailbox_display[i] = str(added[i])
          /\ ends_with(Mailbox_display[i], " (invalide)") <=> ~is_valid(added[i])
    /\ result.op = "display" => result.value = [i \in 1..Len(added) |-> str(added[i])]

C8_Witness ==
    /\ result.op = "display"
    /\ Len(result.value) = 3
    /\ result.value[1] = "Lettre : 240 g, express, pour '', A4 (invalide)"
    /\ result.value[2] = "Colis : 1800 g, normal, pour 'dest', 2 l"
    /\ result.value[3] = "Publicité : 240 g, express, pour '' (invalide)"

====
